---- MODULE Spec2Model ----
(***************************************************************************)
(* rustycord: the shard connection lifecycle (ShardManager / Manager /     *)
(* DiscordWebSocket), the liveness (heartbeat) decision, and the handler   *)
(* registry with its event dispatcher.                                     *)
(***************************************************************************)
EXTENDS Integers, Sequences, FiniteSets, TLC

VARIABLES
    mainTask,            \* the main task: where it is between login and start_shards
    total_shards,        \* ShardManager.total_shards
    intents,             \* the intents handed to ShardManager::start
    presence,            \* the presence handed to ShardManager::start
    startTask,           \* the task spawned by Client::start_shards
    pc,                  \* per shard: the await point its runner is at
    conn,                \* per shard: state of its websocket connection
    connCount,           \* per shard: number of connections it has opened
    inbound,             \* per shard: messages the stream will yield, oldest first
    arrived,             \* per shard: every message the gateway put on the stream
    taken,               \* per shard: the messages recv has taken off the stream
    outbound,            \* per shard: frames written to the current connection
    last_heartbeat,      \* Manager.last_heartbeat
    last_heartbeat_ack,  \* Manager.last_heartbeat_ack
    heartbeat_interval,  \* Manager.heartbeat_interval
    tickLog,             \* per shard: the steps done so far in the current tick
    dispatched,          \* per shard: events handed to Manager::dispatch
    now,                 \* the clock, in whole seconds
    delivered,           \* number of messages the gateway has put on the wire
    handlers,            \* MessageHandlerRegistry.handlers
    readers,             \* the calls holding the read lock of handlers
    call,                \* per task: its EventDispatcher::dispatch_event call
    listener,            \* a PrefixListener: prefix, case_sensitive, commands
    reply,               \* the last handle_message call on it: message and outcome
    spawned,             \* the other tasks spawned by Client::start_shards, in order
    prefix_handlers,     \* PrefixListenerRegistry.prefix_handlers
    default_handlers,    \* PrefixListenerRegistry.default_handlers
    commandsLock,        \* the RwLock of PrefixListener.commands: guards and waiters
    listenerTask         \* per task calling the listener: where it is

vars == <<mainTask, total_shards, intents, presence, startTask, pc, conn, connCount,
          inbound, arrived, taken, outbound, last_heartbeat, last_heartbeat_ack, heartbeat_interval,
          tickLog, dispatched, now, delivered, handlers, readers, call,
          listener, reply, spawned, prefix_handlers, default_handlers,
          commandsLock, listenerTask>>

registryVars == <<prefix_handlers, default_handlers>>

listenerLockVars == <<commandsLock, listenerTask>>

shardVars == <<pc, conn, connCount, inbound, arrived, taken, outbound, last_heartbeat,
               last_heartbeat_ack, heartbeat_interval, tickLog, dispatched>>

----------------------------------------------------------------------------
(* Bounds of the model *)

MaxTime == 17
MaxFrames == 2
MaxHandlers == 2
MaxArgs == 1
MaxStarts == 2

(* Program constants *)

TotalShards == 2
DefaultIntents == 1
LargeThreshold == 50
HeartbeatFiller == 251
InitialInterval == 0
SendThresholdSecs == 5
AckThresholdSecs == 15

\* Option<T>: None is the empty tuple, Some(x) the one-element tuple.
None == <<>>
Some(x) == <<x>>
Unwrap(o) == o[1]

Shards == 0 .. (total_shards - 1)

----------------------------------------------------------------------------
(* Wire messages.  A websocket message is text or something else; a text   *)
(* is empty, not JSON, or a JSON object with (some of) the fields op,t,s,d *)

Absent == "absent"
Null == "null"
InI8(n) == n \in -128 .. 127

\* op and s are Some(number) or None (absent or null); t and d are strings.
Frame(op, t, s, d) ==
    [ws |-> "text", body |-> "json", op |-> op, t |-> t, s |-> s, d |-> d]

EmptyText == [ws |-> "text", body |-> "", op |-> None, t |-> Absent, s |-> None, d |-> Absent]
GarbageText == [ws |-> "text", body |-> "garbage", op |-> None, t |-> Absent, s |-> None, d |-> Absent]
BinaryMessage == [ws |-> "binary", body |-> "bytes", op |-> None, t |-> Absent, s |-> None, d |-> Absent]

OpCodes == {0, 1, 2, 3, 4, 6, 7, 8, 9, 10, 11}

DiscordOpCode(value) ==
    CASE value = 0 -> "Dispatch"
      [] value = 1 -> "Heartbeat"
      [] value = 2 -> "Identify"
      [] value = 3 -> "PresenceUpdate"
      [] value = 4 -> "VoiceStateUpdate"
      [] value = 6 -> "Resume"
      [] value = 7 -> "Reconnect"
      [] value = 8 -> "RequestGuildMembers"
      [] value = 9 -> "InvalidSession"
      [] value = 10 -> "Hello"
      [] value = 11 -> "HeartbeatAck"
      [] OTHER -> "panic"

KnownEventNames ==
    {"HELLO", "READY", "RESUMED", "RECONNECT", "INVALID_SESSION", "GUILD_CREATE",
     "MESSAGE_CREATE", "MESSAGE_UPDATE", "MESSAGE_DELETE"}

\* Deserialize for GatewayReceiveEventName: a known name is its variant, the
\* untagged unit variant Unknown takes null, any other value is an error.
GatewayReceiveEventName(t) ==
    IF t \in KnownEventNames THEN t
    ELSE IF t = Null THEN "Unknown"
    ELSE "error"

\* from_str::<ReceiveMessageOpcode>: the text must be JSON with an i8 op.
ReceiveMessageOpcode(m) ==
    IF m.body = "json" /\ m.op # None /\ InI8(Unwrap(m.op)) THEN "ok" ELSE "error"

\* from_str::<DiscordReceiveEvent>: t, s, op, d must all deserialize.
DiscordReceiveEvent(m) ==
    IF m.body = "json" /\ m.op # None /\ InI8(Unwrap(m.op))
       /\ GatewayReceiveEventName(m.t) # "error"
    THEN "ok" ELSE "error"

\* Mutant: the payload of a non-text message used as it is.
TextOf_Raw(m) == m.body

\* The text recv works on: a message that is not Message::Text counts as "".
TextOf(m) == IF m.ws = "text" THEN m.body ELSE ""

\* DiscordWebSocket::recv on the message m the stream yielded.
recv(m) ==
    LET text == TextOf(m) IN
    IF text = "" THEN [res |-> "Err"]
    ELSE IF ReceiveMessageOpcode(m) = "error" THEN [res |-> "panic"]
    ELSE IF DiscordReceiveEvent(m) = "error" THEN [res |-> "panic"]
    ELSE IF DiscordOpCode(Unwrap(m.op)) = "panic" THEN [res |-> "panic"]
    ELSE [res |-> "Ok",
          event |-> [t |-> GatewayReceiveEventName(m.t),
                     s |-> m.s,
                     op |-> DiscordOpCode(Unwrap(m.op)),
                     d |-> m.d]]

\* The messages the gateway may put on the wire.
HeartbeatAckFrame == Frame(Some(11), Null, None, Null)
HelloFrame == Frame(Some(10), Null, None, "obj")
ReadyFrame == Frame(Some(0), "READY", Some(1), "obj")
MessageCreateFrame == Frame(Some(0), "MESSAGE_CREATE", Some(2), "msg")
BadMessageCreateFrame == Frame(Some(0), "MESSAGE_CREATE", Some(2), "obj")
FutureEventFrame == Frame(Some(0), "SOME_FUTURE_EVENT", Some(3), "obj")
ReconnectFrame == Frame(Some(7), Null, None, Null)
InvalidSessionFrame == Frame(Some(9), Null, None, "obj")
BadOpFrame == Frame(Some(5), Null, None, Null)
NoOpFrame == Frame(None, Null, None, Null)

Frames ==
    {HeartbeatAckFrame, HelloFrame, ReadyFrame, MessageCreateFrame,
     BadMessageCreateFrame, FutureEventFrame, ReconnectFrame,
     InvalidSessionFrame, BadOpFrame, NoOpFrame,
     EmptyText, GarbageText, BinaryMessage}

ManagerFrames == {HeartbeatAckFrame, MessageCreateFrame}

PayloadFrames == {MessageCreateFrame, BadMessageCreateFrame}

LivenessFrames ==
    {HeartbeatAckFrame, HelloFrame, ReadyFrame, MessageCreateFrame,
     ReconnectFrame, InvalidSessionFrame}

----------------------------------------------------------------------------
(* Outbound frames *)

\* The placeholder DiscordWebSocket::send_identify puts in for a missing
\* presence.
DefaultPresence ==
    [since |-> 0,
     activities |-> <<[name |-> "with Rust", type |-> 0,
                       url |-> Some("https://iamdhakrey.dev"),
                       state |-> Some("Enjoying Rust")]>>,
     status |-> "online",
     afk |-> FALSE]

\* A presence of the caller's own.
CustomPresence ==
    [since |-> 0, activities |-> <<>>, status |-> "idle", afk |-> TRUE]

IdentifyProperties == [os |-> "linux", browser |-> "rustcord", device |-> "rustcord"]

\* The Identify message Manager::send_identify builds; shard and presence
\* are Options and go into the frame as they are handed in.
IdentifyFrame(token, int, shard, pres) ==
    [op |-> 2,
     d |-> [token |-> token, intents |-> int, properties |-> IdentifyProperties,
            compress |-> FALSE, large_threshold |-> LargeThreshold,
            shard |-> shard, presence |-> pres]]

HeartbeatFrame == [op |-> 1, d |-> HeartbeatFiller]

\* serde_json::to_string of a WebSocketMessage, as the websocket message it
\* is sent in: a JSON text with the two fields op and d of the struct, and
\* neither t nor s.  The d of an Identify is an object, that of a heartbeat
\* a number.
to_string(message) ==
    [ws |-> "text", body |-> "json", op |-> Some(message.op), t |-> Absent,
     s |-> None, d |-> IF message.op = 2 THEN "obj" ELSE "num"]

\* DiscordWebSocket::send_json: the frame reaches the wire only on an open
\* connection; otherwise the error is logged and false is returned.
send_json(i, frame) ==
    IF conn[i] = "open" THEN Append(outbound[i], frame) ELSE outbound[i]

----------------------------------------------------------------------------
(* The liveness decision *)

\* Mutant: a manager constructed with no interval.
NewInterval_Unset == None

\* Manager::new: heartbeat_interval: Some(heartbeat_interval), with the local 0.
NewInterval == Some(InitialInterval)

\* Instant::elapsed().as_secs() of a recorded instant
elapsed(t) == now - Unwrap(t)

\* Mutant: the test for a missing ack made after the 5-second test.
is_required_heartbeat_AckTestLate(i) ==
    IF heartbeat_interval[i] = None THEN TRUE
    ELSE IF last_heartbeat[i] = None THEN TRUE
    ELSE IF elapsed(last_heartbeat[i]) < SendThresholdSecs THEN FALSE
    ELSE TRUE

\* Mutant: a heartbeat exactly 5 seconds old still counts as recent.
is_required_heartbeat_RecentAtFive(i) ==
    IF heartbeat_interval[i] = None THEN TRUE
    ELSE IF last_heartbeat_ack[i] = None THEN TRUE
    ELSE IF last_heartbeat[i] = None THEN TRUE
    ELSE IF elapsed(last_heartbeat[i]) <= SendThresholdSecs THEN FALSE
    ELSE TRUE

is_required_heartbeat(i) ==
    IF heartbeat_interval[i] = None THEN TRUE
    ELSE IF last_heartbeat_ack[i] = None THEN TRUE
    ELSE IF last_heartbeat[i] = None THEN TRUE
    ELSE IF elapsed(last_heartbeat[i]) < SendThresholdSecs THEN FALSE
    ELSE IF elapsed(last_heartbeat_ack[i]) > AckThresholdSecs THEN TRUE
    ELSE IF elapsed(last_heartbeat[i]) > SendThresholdSecs THEN TRUE
    ELSE TRUE

----------------------------------------------------------------------------
(* PrefixListener (prefix.rs).  A string is the sequence of its characters. *)

Bang == <<"!">>
Question == <<"?">>
Space == " "

Str_test == <<"t", "e", "s", "t">>
Str_Test == <<"T", "e", "s", "t">>
Str_TEST == <<"T", "E", "S", "T">>
Str_ping == <<"p", "i", "n", "g">>
Str_pong == <<"p", "o", "n", "g">>
Str_repeat == <<"r", "e", "p", "e", "a", "t">>
Str_say == <<"s", "a", "y">>
Str_nope == <<"n", "o", "p", "e">>
Str_Hello == <<"H", "e", "l", "l", "o", "!">>
Str_Pong == <<"P", "o", "n", "g", "!">>
Str_ProvideText == <<"P", "l", "e", "a", "s", "e", "?">>
Str_failed == <<"f", "a", "i", "l", "e", "d">>
Str_help == <<"h", "e", "l", "p">>

\* Result<Option<String>, Error>
Ok(value) == [res |-> "Ok", value |-> value]
Err(e) == [res |-> "Err", value |-> Some(e)]

\* char::to_lowercase on the letters the model uses
LowerChar(c) ==
    CASE c = "T" -> "t"
      [] c = "E" -> "e"
      [] c = "S" -> "s"
      [] c = "P" -> "p"
      [] c = "H" -> "h"
      [] OTHER -> c

\* str::to_lowercase
to_lowercase(str) == [k \in 1 .. Len(str) |-> LowerChar(str[k])]

\* Mutant: a prefix test that looks at the length only.
starts_with_LengthOnly(str, pre) == Len(str) >= Len(pre)

\* str::starts_with
starts_with(str, pre) ==
    Len(str) >= Len(pre) /\ SubSeq(str, 1, Len(pre)) = pre

\* The index of the first whitespace of str, or Len(str) + 1.
FirstSpace(str) ==
    IF \E k \in 1 .. Len(str) : str[k] = Space
    THEN CHOOSE k \in 1 .. Len(str) :
            str[k] = Space /\ \A j \in 1 .. (k - 1) : str[j] # Space
    ELSE Len(str) + 1

\* str::split_whitespace().collect(): the maximal runs without whitespace.
RECURSIVE split_whitespace(_)
split_whitespace(str) ==
    IF str = <<>> THEN <<>>
    ELSE IF str[1] = Space THEN split_whitespace(Tail(str))
    ELSE <<SubSeq(str, 1, FirstSpace(str) - 1)>>
            \o split_whitespace(SubSeq(str, FirstSpace(str), Len(str)))

\* [&str]::join(" ")
RECURSIVE join(_)
join(parts) ==
    IF parts = <<>> THEN <<>>
    ELSE IF Len(parts) = 1 THEN parts[1]
    ELSE parts[1] \o <<Space>> \o join(Tail(parts))

\* The commands: TestCommand of the tests, the built-in PingCommand and
\* EchoPrefixCommand, and a command whose execute returns Err.
PrefixCommands == {"TestCommand", "PingCommand", "EchoPrefixCommand", "FailingCommand"}

\* PrefixCommand::execute
execute(command, args) ==
    CASE command = "TestCommand" -> Ok(Some(Str_Hello))
      [] command = "PingCommand" -> Ok(Some(Str_Pong))
      [] command = "EchoPrefixCommand" ->
            IF args = <<>> THEN Ok(Some(Str_ProvideText)) ELSE Ok(Some(join(args)))
      [] command = "FailingCommand" -> Err(Str_failed)

\* PrefixCommand::aliases: empty unless the command overrides it.
aliases(command) ==
    CASE command = "PingCommand" -> <<Str_pong>>
      [] command = "EchoPrefixCommand" -> <<Str_repeat, Str_say>>
      [] OTHER -> <<>>

\* PrefixListener::new and new_case_sensitive; commands is a map from key
\* to command, empty at first.
new(prefix) == [prefix |-> prefix, commands |-> <<>>, case_sensitive |-> FALSE]
new_case_sensitive(prefix) == [prefix |-> prefix, commands |-> <<>>, case_sensitive |-> TRUE]

\* Mutant: the name taken as it is, whatever the listener's mode.
Key_AsGiven(case_sensitive, name) == name

\* The key a name is stored and looked up under.
Key(case_sensitive, name) ==
    IF case_sensitive THEN name ELSE to_lowercase(name)

\* HashMap::insert
Insert(map, key, value) ==
    [k \in (DOMAIN map) \cup {key} |-> IF k = key THEN value ELSE map[k]]

\* HashMap::remove
Remove(map, key) == [k \in (DOMAIN map) \ {key} |-> map[k]]

\* Mutant: the names lower-cased on the way out, whatever the listener's mode.
list_commands_Lowercased(l) == {to_lowercase(k) : k \in DOMAIN l.commands}

\* PrefixListener::list_commands: the keys of the map, in the map's order;
\* a key occurs once, so the Vec is given as the set of its elements.
list_commands(l) == DOMAIN l.commands

\* No handle_message call yet.
NoReply ==
    [handled |-> FALSE, content |-> <<>>, result |-> Ok(None),
     executed |-> None, args |-> <<>>]

\* The names register_command and unregister_command are called with.
CommandNames == {Str_test, Str_Test, Str_ping}

\* PrefixListener::register_command: the command goes into the map under
\* the key of its name.  The loop over the aliases computes a key for each
\* alias and stores nothing.
register_command(name, command) ==
    /\ listener' = [listener EXCEPT
                      !.commands = Insert(@, Key(listener.case_sensitive, name), command)]
    /\ UNCHANGED <<spawned, registryVars, listenerLockVars, mainTask, total_shards, intents, presence, startTask,
                   shardVars, now, delivered, handlers, readers, call, reply>>

\* PrefixListener::unregister_command
unregister_command(name) ==
    /\ listener' = [listener EXCEPT
                      !.commands = Remove(@, Key(listener.case_sensitive, name))]
    /\ UNCHANGED <<spawned, registryVars, listenerLockVars, mainTask, total_shards, intents, presence, startTask,
                   shardVars, now, delivered, handlers, readers, call, reply>>

\* PrefixListener::handle_message on a message with this content: what it
\* returns, and the command it executed with which arguments, if any.
handle_message_outcome(l, content) ==
    IF ~starts_with(content, l.prefix)
    THEN [result |-> Ok(None), executed |-> None, args |-> <<>>]
    ELSE LET content_without_prefix == SubSeq(content, Len(l.prefix) + 1, Len(content))
             parts == split_whitespace(content_without_prefix)
         IN IF parts = <<>>
            THEN [result |-> Ok(None), executed |-> None, args |-> <<>>]
            ELSE LET command_name == parts[1]
                     args == Tail(parts)
                     key == Key(l.case_sensitive, command_name)
                 IN IF key \in DOMAIN l.commands
                    THEN [result |-> execute(l.commands[key], args),
                          executed |-> Some(l.commands[key]), args |-> args]
                    ELSE [result |-> Ok(None), executed |-> None, args |-> <<>>]

handle_message(content) ==
    /\ LET out == handle_message_outcome(listener, content) IN
       reply' = [handled |-> TRUE, content |-> content, result |-> out.result,
                 executed |-> out.executed, args |-> out.args]
    /\ UNCHANGED <<spawned, registryVars, listenerLockVars, mainTask, total_shards, intents, presence, startTask,
                   shardVars, now, delivered, handlers, readers, call, listener>>

\* The message contents tried: a prefix or none, optional leading
\* whitespace, a command name or none, and up to MaxArgs arguments.
RECURSIVE ArgTail(_)
ArgTail(n) == IF n = 0 THEN <<>> ELSE <<Space, "a">> \o ArgTail(n - 1)

Contents ==
    {p \o lead \o name \o ArgTail(n) :
        p \in {Bang, Question, <<>>},
        lead \in {<<>>, <<Space>>},
        name \in {<<>>, Str_test, Str_Test, Str_TEST, Str_ping, Str_pong, Str_say, Str_nope},
        n \in 0 .. MaxArgs}

----------------------------------------------------------------------------
(* The tasks that call a PrefixListener shared through an Arc, and the     *)
(* tokio RwLock around its commands.                                       *)

ListenerTasks == {"handler1", "handler2", "registrar"}

\* A task that is not inside a call on the listener.
IdleTask == [pc |-> "idle", op |-> "none", name |-> <<>>, command |-> "none"]

\* A lock nobody holds or waits for: the number of read guards each task
\* holds, the task holding the write guard, and the waiters, oldest first.
FreeLock ==
    [reads |-> [t \in ListenerTasks |-> 0], writer |-> None, queue |-> <<>>]

\* RwLock::read().await and write().await queue the caller; tokio's RwLock
\* is fair: the waiters are served oldest first.
Enqueue(lock, t, mode) ==
    [lock EXCEPT !.queue = Append(@, [task |-> t, mode |-> mode])]

\* The oldest waiter is task t and the guard it waits for can be given: a
\* read guard while no write guard is out, a write guard while no guard is.
Granted(lock, t) ==
    /\ lock.queue # <<>>
    /\ Head(lock.queue).task = t
    /\ lock.writer = None
    /\ Head(lock.queue).mode = "write" => \A u \in ListenerTasks : lock.reads[u] = 0

\* The oldest waiter leaves the queue.
Dequeue(lock) == [lock EXCEPT !.queue = Tail(@)]

\* The listener of a bot that has registered the built-in help command.
ListenerWithHelp ==
    [new(Bang) EXCEPT !.commands = Insert(@, Str_help, "HelpCommand")]

\* The messages the handler tasks pass to handle_message.
LockContents ==
    {Bang \o Str_help, Bang \o Str_help \o <<Space>> \o Str_ping,
     Bang \o Str_ping, Bang \o Str_nope}

\* PrefixListener::handle_message up to self.commands.read().await: a
\* message with the prefix and a command name makes the task wait for a read
\* guard (any other message returns Ok(None) without touching the lock).
handle_message_await(t, content) ==
    /\ listenerTask[t].pc = "idle"
    /\ starts_with(content, listener.prefix)
    /\ LET parts == split_whitespace(
                        SubSeq(content, Len(listener.prefix) + 1, Len(content)))
       IN /\ parts # <<>>
          /\ listenerTask' = [listenerTask EXCEPT
                ![t] = [pc |-> "read_wait", op |-> "handle_message",
                        name |-> Key(listener.case_sensitive, parts[1]),
                        command |-> "none"]]
    /\ commandsLock' = Enqueue(commandsLock, t, "read")
    /\ UNCHANGED <<total_shards, spawned, registryVars, listener, reply, mainTask,
                   intents, presence, startTask, shardVars, now, delivered,
                   handlers, readers, call>>

\* handle_message with its read guard: an unknown command returns Ok(None),
\* a command that does not use the listener is executed, and the guard is
\* dropped at the return.  HelpCommand::execute calls list_commands or
\* get_command_help on the same listener, which await a read guard of their
\* own while the guard of handle_message is still held.
handle_message_execute(t) ==
    /\ listenerTask[t].pc = "read_wait"
    /\ Granted(commandsLock, t)
    /\ LET key == listenerTask[t].name IN
       IF key \in DOMAIN listener.commands /\ listener.commands[key] = "HelpCommand"
       THEN /\ commandsLock' =
                  Enqueue([Dequeue(commandsLock) EXCEPT !.reads[t] = @ + 1], t, "read")
            /\ listenerTask' = [listenerTask EXCEPT ![t].pc = "help_wait",
                                                    ![t].command = "HelpCommand"]
       ELSE /\ commandsLock' = Dequeue(commandsLock)
            /\ listenerTask' = [listenerTask EXCEPT ![t] = IdleTask]
    /\ UNCHANGED <<total_shards, spawned, registryVars, listener, reply, mainTask,
                   intents, presence, startTask, shardVars, now, delivered,
                   handlers, readers, call>>

\* HelpCommand::execute gets the read guard of list_commands or
\* get_command_help, which is dropped when that call returns; execute and
\* handle_message return and the guard of handle_message is dropped.
HelpCommand_execute(t) ==
    /\ listenerTask[t].pc = "help_wait"
    /\ Granted(commandsLock, t)
    /\ commandsLock' = [Dequeue(commandsLock) EXCEPT !.reads[t] = @ - 1]
    /\ listenerTask' = [listenerTask EXCEPT ![t] = IdleTask]
    /\ UNCHANGED <<total_shards, spawned, registryVars, listener, reply, mainTask,
                   intents, presence, startTask, shardVars, now, delivered,
                   handlers, readers, call>>

\* register_command and unregister_command up to self.commands.write().await.
register_command_await(t, name, command) ==
    /\ listenerTask[t].pc = "idle"
    /\ listenerTask' = [listenerTask EXCEPT
          ![t] = [pc |-> "write_wait", op |-> "register_command",
                  name |-> Key(listener.case_sensitive, name), command |-> command]]
    /\ commandsLock' = Enqueue(commandsLock, t, "write")
    /\ UNCHANGED <<total_shards, spawned, registryVars, listener, reply, mainTask,
                   intents, presence, startTask, shardVars, now, delivered,
                   handlers, readers, call>>

unregister_command_await(t, name) ==
    /\ listenerTask[t].pc = "idle"
    /\ listenerTask' = [listenerTask EXCEPT
          ![t] = [pc |-> "write_wait", op |-> "unregister_command",
                  name |-> Key(listener.case_sensitive, name), command |-> "none"]]
    /\ commandsLock' = Enqueue(commandsLock, t, "write")
    /\ UNCHANGED <<total_shards, spawned, registryVars, listener, reply, mainTask,
                   intents, presence, startTask, shardVars, now, delivered,
                   handlers, readers, call>>

\* register_command or unregister_command with its write guard: the map is
\* changed and the guard dropped at the return.
commands_write(t) ==
    /\ listenerTask[t].pc = "write_wait"
    /\ Granted(commandsLock, t)
    /\ listener' = [listener EXCEPT
          !.commands = IF listenerTask[t].op = "register_command"
                       THEN Insert(@, listenerTask[t].name, listenerTask[t].command)
                       ELSE Remove(@, listenerTask[t].name)]
    /\ commandsLock' = Dequeue(commandsLock)
    /\ listenerTask' = [listenerTask EXCEPT ![t] = IdleTask]
    /\ UNCHANGED <<total_shards, spawned, registryVars, reply, mainTask,
                   intents, presence, startTask, shardVars, now, delivered,
                   handlers, readers, call>>

----------------------------------------------------------------------------
\* A task that is not inside dispatch_event.
IdleCall ==
    [pc |-> "idle", event |-> [t |-> "none", d |-> Null], method |-> "none",
     n |-> 0, k |-> 0, calls |-> <<>>, result |-> "none",
     message |-> <<>>, prefix_calls |-> <<>>, default_calls |-> <<>>]

(* Initial state: a client with a shard manager for n shards, its main     *)
(* task at m; no shard task has been spawned yet.                          *)

InitShardState(n, m) ==
    /\ mainTask = m
    /\ total_shards = n
    /\ intents = None
    /\ presence = None
    /\ startTask = "idle"
    /\ pc = [i \in 0 .. (n - 1) |-> "unspawned"]
    /\ conn = [i \in 0 .. (n - 1) |-> "none"]
    /\ connCount = [i \in 0 .. (n - 1) |-> 0]
    /\ inbound = [i \in 0 .. (n - 1) |-> <<>>]
    /\ arrived = [i \in 0 .. (n - 1) |-> <<>>]
    /\ taken = [i \in 0 .. (n - 1) |-> <<>>]
    /\ outbound = [i \in 0 .. (n - 1) |-> <<>>]
    /\ last_heartbeat = [i \in 0 .. (n - 1) |-> None]
    /\ last_heartbeat_ack = [i \in 0 .. (n - 1) |-> None]
    /\ heartbeat_interval = [i \in 0 .. (n - 1) |-> None]
    /\ tickLog = [i \in 0 .. (n - 1) |-> <<>>]
    /\ dispatched = [i \in 0 .. (n - 1) |-> <<>>]
    /\ now = 0
    /\ delivered = 0
    /\ handlers = <<>>
    /\ readers = {}
    /\ call = [i \in 0 .. (n - 1) |-> IdleCall]
    /\ spawned = <<>>
    /\ prefix_handlers = <<>>
    /\ default_handlers = <<>>
    /\ commandsLock = FreeLock
    /\ listenerTask = [t \in ListenerTasks |-> IdleTask]

\* The same with a prefix listener for "!" that nothing has called yet.
InitState(n, m) ==
    /\ InitShardState(n, m)
    /\ listener = new(Bang)
    /\ reply = NoReply

\* A prefix listener of either kind, just created.
InitPrefix ==
    /\ InitShardState(1, "logged_in")
    /\ listener \in {new(Bang), new_case_sensitive(Bang)}
    /\ reply = NoReply

\* The client is logged in and its shard manager built.
InitShards(n) == InitState(n, "logged_in")

Init == InitShards(1)

\* The main task is about to call login.
InitLogin == InitState(1, "login")

----------------------------------------------------------------------------
(* Client::login / HTTPClient::login *)

\* What the GET /users/@me of login may come back with: a success status
\* with a user body, a success status with a body that is no user, a
\* non-success status (the token is not accepted), or no response at all.
LoginResponses == {"success", "success_bad_body", "unauthorized", "network_error"}

\* HTTPClient::login on each response: the user is returned, or the task
\* panics (unwrap of the body, panic!("Invalid token")), or the process
\* exits with code 2.
LoginOutcome(response) ==
    CASE response = "success" -> "logged_in"
      [] response = "success_bad_body" -> "panicked"
      [] response = "unauthorized" -> "panicked"
      [] response = "network_error" -> "exited"

\* Client::login (BotBase::login calls it): the token is stored, then
\* HTTPClient::login decides.
login(response) ==
    /\ mainTask = "login"
    /\ mainTask' = LoginOutcome(response)
    /\ UNCHANGED <<total_shards, spawned, registryVars, listenerLockVars, listener, reply, intents, presence, startTask, shardVars, now,
                   delivered, handlers, readers, call>>

----------------------------------------------------------------------------
(* Client::start_shards / ShardManager::start *)

\* Mutant: the loop body with the receive ahead of the heartbeat check.
TickOrder_ReceiveFirst == <<"event", "heartbeat", "sleep">>

\* The order of the steps of one tick of the runner's loop.
TickOrder == <<"heartbeat", "event", "sleep">>

FirstStep == TickOrder[1]

NextStep(step) ==
    IF step = TickOrder[1] THEN TickOrder[2]
    ELSE IF step = TickOrder[2] THEN TickOrder[3]
    ELSE TickOrder[1]

\* Client::start_shards spawns one task that runs ShardManager::start, which
\* builds one future per shard id and polls them all with join_all.
start_shards(int, pres) ==
    /\ mainTask = "logged_in"
    /\ startTask = "idle"
    /\ startTask' = "running"
    /\ intents' = int
    /\ presence' = pres
    /\ pc' = [i \in Shards |-> "connect"]
    /\ UNCHANGED <<total_shards, spawned, registryVars, listenerLockVars, listener, reply, mainTask, conn, connCount, inbound, arrived, taken, outbound,
                   last_heartbeat, last_heartbeat_ack, heartbeat_interval,
                   tickLog, dispatched, now, delivered, handlers,
                   readers, call>>

\* Client::start_shards called when a task spawned by an earlier call exists:
\* one more task is spawned, which awaits manager.lock().
start_shards_queued(int, pres) ==
    /\ mainTask = "logged_in"
    /\ startTask # "idle"
    /\ Len(spawned) < MaxStarts
    /\ spawned' = Append(spawned, [state |-> "waiting", intents |-> int, presence |-> pres])
    /\ UNCHANGED <<total_shards, registryVars, listenerLockVars, listener, reply,
                   mainTask, intents, presence, startTask, shardVars, now,
                   delivered, handlers, readers, call>>

\* Mutant: the mutex given out while a start is still inside it.
MutexFree_NotHeld == startTask \in {"running", "panicked"}

\* The manager's mutex is free: the guard of the task that had it, a
\* temporary living through start(..).await, went when that task unwound.
MutexFree == startTask = "panicked"

\* The tasks waiting on the mutex, oldest first (the tokio Mutex is fair).
Waiting == SelectSeq([k \in 1 .. Len(spawned) |-> k],
                     LAMBDA k : spawned[k].state = "waiting")

\* manager.lock().await returns in the oldest waiting task, which runs
\* ShardManager::start: fresh shard futures, polled with join_all.  The
\* task that had the mutex before takes its place in spawned.
start ==
    /\ MutexFree
    /\ Waiting # <<>>
    /\ LET k == Head(Waiting) IN
       /\ spawned' = [spawned EXCEPT ![k] =
                        [state |-> startTask, intents |-> intents, presence |-> presence]]
       /\ intents' = spawned[k].intents
       /\ presence' = spawned[k].presence
    /\ startTask' = "running"
    /\ pc' = [i \in Shards |-> "connect"]
    /\ conn' = [i \in Shards |-> "none"]
    /\ inbound' = [i \in Shards |-> <<>>]
    /\ arrived' = [i \in Shards |-> <<>>]
    /\ taken' = [i \in Shards |-> <<>>]
    /\ tickLog' = [i \in Shards |-> <<>>]
    /\ UNCHANGED <<total_shards, registryVars, listenerLockVars, listener, reply,
                   mainTask, connCount, outbound, last_heartbeat, last_heartbeat_ack,
                   heartbeat_interval, dispatched, now, delivered, handlers,
                   readers, call>>

\* Mutant: the runner entering its loop straight after connecting.
AfterConnect_Loop == "heartbeat"

\* shard_task: Manager::new is followed by send_identify, then by the loop.
AfterConnect == "identify"

\* Mutant: shard ids counted from one in the Identify frame.
ShardField_OneBased(i, n) == <<i + 1, n>>

\* The shard field handed to send_identify: [shard_id, total_shards].
ShardField(i, n) == <<i, n>>

\* Client::wait_for_shutdown: ctrl_c arrives, "shutting down shards" is
\* logged, the shard manager is looked at and left alone, "All shards have
\* been shut down." is logged and the function returns.
wait_for_shutdown ==
    /\ mainTask = "logged_in"
    /\ startTask # "idle"
    /\ mainTask' = "shut_down"
    /\ UNCHANGED <<total_shards, spawned, registryVars, listenerLockVars, listener, reply, intents, presence, startTask, shardVars, now,
                   delivered, handlers, readers, call>>

\* Manager::new: DiscordWebSocket::connect, then the fresh liveness state.
\* A failed connect ends the process (exit(2)).
connect(i, ok) ==
    /\ startTask = "running"
    /\ pc[i] = "connect"
    /\ IF ok
       THEN /\ conn' = [conn EXCEPT ![i] = "open"]
            /\ connCount' = [connCount EXCEPT ![i] = @ + 1]
            /\ outbound' = [outbound EXCEPT ![i] = <<>>]
            /\ last_heartbeat' = [last_heartbeat EXCEPT ![i] = None]
            /\ last_heartbeat_ack' = [last_heartbeat_ack EXCEPT ![i] = None]
            /\ heartbeat_interval' = [heartbeat_interval EXCEPT ![i] = NewInterval]
            /\ pc' = [pc EXCEPT ![i] = AfterConnect]
            /\ UNCHANGED startTask
       ELSE /\ startTask' = "exited"
            /\ UNCHANGED <<pc, conn, connCount, outbound, last_heartbeat,
                           last_heartbeat_ack, heartbeat_interval>>
    /\ UNCHANGED <<total_shards, spawned, registryVars, listenerLockVars, listener, reply, mainTask, intents, presence, inbound, arrived, taken, tickLog, dispatched,
                   now, delivered, handlers, readers, call>>

\* Mutant: the default used whatever was configured.
ResolveIntents_AlwaysDefault(int) == DefaultIntents

\* ShardManager::start: the intents handed in, or the default with a warning.
ResolveIntents(int) == IF int = None THEN DefaultIntents ELSE Unwrap(int)

\* Manager::send_identify: one Identify frame; the result of the send is dropped.
send_identify(i) ==
    /\ startTask = "running"
    /\ pc[i] = "identify"
    /\ outbound' = [outbound EXCEPT
                      ![i] = send_json(i, IdentifyFrame("token", ResolveIntents(intents),
                                                 Some(ShardField(i, total_shards)), presence))]
    /\ pc' = [pc EXCEPT ![i] = FirstStep]
    /\ UNCHANGED <<total_shards, spawned, registryVars, listenerLockVars, listener, reply, mainTask, intents, presence, startTask, conn, connCount, inbound, arrived, taken,
                   last_heartbeat, last_heartbeat_ack, heartbeat_interval,
                   tickLog, dispatched, now, delivered, handlers,
                   readers, call>>

\* Manager::handle_heartbeat: if a heartbeat is due, send it and record the time.
handle_heartbeat(i) ==
    /\ startTask = "running"
    /\ pc[i] = "heartbeat"
    /\ IF is_required_heartbeat(i)
       THEN /\ outbound' = [outbound EXCEPT ![i] = send_json(i, HeartbeatFrame)]
            /\ last_heartbeat' = [last_heartbeat EXCEPT ![i] = Some(now)]
       ELSE UNCHANGED <<outbound, last_heartbeat>>
    /\ tickLog' = [tickLog EXCEPT ![i] = Append(@, "heartbeat")]
    /\ pc' = [pc EXCEPT ![i] = NextStep("heartbeat")]
    /\ UNCHANGED <<total_shards, spawned, registryVars, listenerLockVars, listener, reply, mainTask, intents, presence, startTask, conn, connCount, inbound, arrived, taken,
                   last_heartbeat_ack, heartbeat_interval, dispatched,
                   now, delivered, handlers, readers, call>>

\* Manager::event_handler with what it calls: READY is logged, MESSAGE_CREATE
\* goes to Manager::message_create (parse the payload, then send_message over
\* HTTP), every other event is dropped.
event_handler(event) ==
    IF event.t = "READY" THEN "ready"
    ELSE IF event.t = "MESSAGE_CREATE"
         THEN IF event.d = Null THEN "no_data"
              ELSE IF event.d = "msg" THEN "send_message"
              ELSE "parse_error"
    ELSE "ignored"

\* Mutant: every frame that is not a Dispatch counted as an ack.
IsAck_NotDispatch(event) == event.op # "Dispatch"

\* Mutant: the ack branch taken for the wrong op code.
IsAck_Heartbeat(event) == event.op \in {"Heartbeat", "Dispatch"}

\* Does the handling of this event go to the HeartbeatAck branch?
IsAck(event) == event.op = "HeartbeatAck"

\* The stream's next() panics recv (unwrap) when it yields None (connection
\* closed) or an error (connection reset).
StreamFails(i) == inbound[i] = <<>> /\ conn[i] \in {"closed", "reset"}

\* A panic inside one shard's future unwinds ShardManager::start, whose
\* join_all holds every shard's future: the spawned task ends.
Panic(i) ==
    /\ pc' = [pc EXCEPT ![i] = "panicked"]
    /\ startTask' = "panicked"

\* Mutant: the stream handing out its newest message.
NextMessage_Newest(q) == q[Len(q)]

\* StreamExt::next on the websocket stream: the oldest message not yet taken.
NextMessage(q) == Head(q)

\* Manager::handle_event: await recv, then ack bookkeeping or dispatch.
handle_event(i) ==
    /\ startTask = "running"
    /\ pc[i] = "event"
    /\ \/ /\ StreamFails(i)
          /\ Panic(i)
          /\ UNCHANGED <<inbound, arrived, taken, last_heartbeat_ack, dispatched, tickLog>>
       \/ /\ inbound[i] # <<>>
          /\ LET r == recv(NextMessage(inbound[i])) IN
             /\ inbound' = [inbound EXCEPT ![i] = Tail(@)]
             /\ taken' = [taken EXCEPT ![i] = Append(@, NextMessage(inbound[i]))]
             /\ UNCHANGED arrived
             /\ CASE r.res = "panic" ->
                       /\ Panic(i)
                       /\ UNCHANGED <<last_heartbeat_ack, dispatched, tickLog>>
                  [] r.res = "Err" ->
                       /\ pc' = [pc EXCEPT ![i] = NextStep("event")]
                       /\ tickLog' = [tickLog EXCEPT ![i] = Append(@, "recv_err")]
                       /\ UNCHANGED <<startTask, last_heartbeat_ack, dispatched>>
                  [] r.res = "Ok" ->
                       /\ pc' = [pc EXCEPT ![i] =
                                   IF ~IsAck(r.event) /\ event_handler(r.event) = "send_message"
                                   THEN "dispatch" ELSE NextStep("event")]
                       /\ tickLog' = [tickLog EXCEPT ![i] = Append(@, "recv_ok")]
                       /\ IF IsAck(r.event)
                          THEN /\ last_heartbeat_ack' = [last_heartbeat_ack EXCEPT ![i] = Some(now)]
                               /\ UNCHANGED dispatched
                          ELSE /\ dispatched' = [dispatched EXCEPT ![i] =
                                      Append(@, [t |-> r.event.t, op |-> r.event.op,
                                                 did |-> event_handler(r.event)])]
                               /\ UNCHANGED last_heartbeat_ack
                       /\ UNCHANGED startTask
    /\ UNCHANGED <<total_shards, spawned, registryVars, listenerLockVars, listener, reply, mainTask, intents, presence, conn, connCount, outbound,
                   last_heartbeat, heartbeat_interval, now, delivered,
                   handlers, readers, call>>

\* Manager::send_message: the HTTP post that message_create, dispatch and
\* handle_event are awaiting comes back; its result is dropped.
send_message(i) ==
    /\ startTask = "running"
    /\ pc[i] = "dispatch"
    /\ pc' = [pc EXCEPT ![i] = NextStep("event")]
    /\ UNCHANGED <<total_shards, spawned, registryVars, listenerLockVars, listener, reply, mainTask, intents, presence, startTask, conn,
                   connCount, inbound, arrived, taken, outbound,
                   last_heartbeat, last_heartbeat_ack, heartbeat_interval,
                   tickLog, dispatched, now, delivered, handlers, readers, call>>

\* tokio::time::sleep(100 ms) at the end of the tick.
sleep(i) ==
    /\ startTask = "running"
    /\ pc[i] = "sleep"
    /\ pc' = [pc EXCEPT ![i] = NextStep("sleep")]
    /\ tickLog' = [tickLog EXCEPT ![i] = <<>>]
    /\ UNCHANGED <<total_shards, spawned, registryVars, listenerLockVars, listener, reply, mainTask, intents, presence, startTask, conn, connCount, inbound, arrived, taken,
                   outbound, last_heartbeat, last_heartbeat_ack,
                   heartbeat_interval, dispatched, now, delivered,
                   handlers, readers, call>>

----------------------------------------------------------------------------
(* The gateway and the clock *)

\* The gateway puts one more message on shard i's connection.
GatewaySends(i, m) ==
    /\ conn[i] = "open"
    /\ delivered < MaxFrames
    /\ inbound' = [inbound EXCEPT ![i] = Append(@, m)]
    /\ arrived' = [arrived EXCEPT ![i] = Append(@, m)]
    /\ UNCHANGED taken
    /\ delivered' = delivered + 1
    /\ UNCHANGED <<total_shards, spawned, registryVars, listenerLockVars, listener, reply, mainTask, intents, presence, startTask, pc, conn, connCount,
                   outbound, last_heartbeat, last_heartbeat_ack,
                   heartbeat_interval, tickLog, dispatched, now,
                   handlers, readers, call>>

\* The connection of shard i ends: closed by the gateway, or reset.
GatewayCloses(i, how) ==
    /\ conn[i] = "open"
    /\ conn' = [conn EXCEPT ![i] = how]
    /\ UNCHANGED <<total_shards, spawned, registryVars, listenerLockVars, listener, reply, mainTask, intents, presence, startTask, pc, connCount, inbound, arrived, taken,
                   outbound, last_heartbeat, last_heartbeat_ack,
                   heartbeat_interval, tickLog, dispatched, now,
                   delivered, handlers, readers, call>>

Tick ==
    /\ now < MaxTime
    /\ now' = now + 1
    /\ UNCHANGED <<total_shards, spawned, registryVars, listenerLockVars, listener, reply, mainTask, intents, presence, startTask, shardVars, delivered,
                   handlers, readers, call>>

----------------------------------------------------------------------------
(* MessageHandlerRegistry *)

\* Mutant: the push made without waiting for the readers.
WriteLockFree_NoLock == TRUE

\* RwLock::write().await returns once no read guard is held.
WriteLockFree == readers = {}

\* MessageHandlerRegistry::add_handler: push under the write lock.  The
\* k-th handler object registered is named k.
add_handler ==
    /\ Len(handlers) < MaxHandlers
    /\ WriteLockFree
    /\ handlers' = Append(handlers, Len(handlers) + 1)
    /\ UNCHANGED <<total_shards, spawned, registryVars, listenerLockVars, listener, reply, mainTask, intents, presence, startTask, shardVars, now,
                   delivered, readers, call>>

----------------------------------------------------------------------------

(* EventDispatcher::dispatch_event, called with a decoded event.  The     *)
(* payload d is "msg" (a full message object, which has id and            *)
(* channel_id), "ids" (an object with id and channel_id only), "obj" (any  *)
(* other object) or null.                                                  *)

Event(t, d) == [t |-> t, d |-> d]

DispatchEvents ==
    {Event("MESSAGE_CREATE", "msg"), Event("MESSAGE_CREATE", "obj"),
     Event("MESSAGE_CREATE", Null),
     Event("MESSAGE_UPDATE", "msg"), Event("MESSAGE_UPDATE", "obj"),
     Event("MESSAGE_DELETE", "ids"), Event("MESSAGE_DELETE", "obj"),
     Event("READY", "obj"), Event("Unknown", Null)}

\* Mutant: the registry method chosen by the event name alone.
Route_ByNameOnly(e) ==
    CASE e.t = "MESSAGE_CREATE" -> "handle_message_create"
      [] e.t = "MESSAGE_UPDATE" -> "handle_message_update"
      [] e.t = "MESSAGE_DELETE" -> "handle_message_delete"
      [] OTHER -> "none"

\* The registry method dispatch_event hands the event to, if any.
Route(e) ==
    IF e.t = "MESSAGE_CREATE"
    THEN IF e.d = "msg" THEN "handle_message_create" ELSE "none"
    ELSE IF e.t = "MESSAGE_UPDATE"
    THEN IF e.d = "msg" THEN "handle_message_update" ELSE "none"
    ELSE IF e.t = "MESSAGE_DELETE"
    THEN IF e.d \in {"msg", "ids"} THEN "handle_message_delete" ELSE "none"
    ELSE "none"

\* The MessageHandler callback each registry method calls on a handler.
CallbackOf(method) ==
    CASE method = "handle_message_create" -> "on_message_create"
      [] method = "handle_message_update" -> "on_message_update"
      [] method = "handle_message_delete" -> "on_message_delete"

\* Mutant: the callback's result propagated with `?`.
AfterHandler_Propagate(res) == IF res = "Err" THEN "return" ELSE "next"

\* What the handler loop does with a callback's result: an Err is logged
\* and the loop goes on.
AfterHandler(res) == "next"

\* Mutant: the handlers visited newest first.
IterIndex_Reversed(k, n) == n + 1 - k

\* The position in handlers the loop visits at its k-th step.
IterIndex(k, n) == k

Tasks == DOMAIN call

dispatch_event(d, e) ==
    /\ call[d].pc \in {"idle", "returned"}
    /\ call' = [call EXCEPT ![d] =
                  IF Route(e) = "none"
                  THEN [IdleCall EXCEPT !.pc = "returned", !.event = e, !.result = "Ok"]
                  ELSE [IdleCall EXCEPT
                          !.event = e,
                          !.pc = IF Route(e) = "handle_message_create"
                                 THEN "prefix" ELSE "read",
                          !.method = Route(e)]]
    /\ UNCHANGED <<total_shards, spawned, registryVars, listenerLockVars, listener, reply, mainTask, intents, presence, startTask, shardVars, now,
                   delivered, handlers, readers>>

\* A ChannelMessage: its content and whether its author is a bot.
Message(content, bot) == <<[content |-> content, bot |-> bot]>>

\* A message no registered prefix is concerned with.
PlainMessage == Message(<<"h", "i">>, FALSE)

BangBang == <<"!", "!">>

\* The messages handed to the prefix registry.
RegistryMessages ==
    {Message(c, b) :
        c \in {Bang \o Str_test, BangBang \o Str_test, Str_test, Bang \o Str_nope},
        b \in BOOLEAN}

\* CommandHandler::new(prefix) after add_command: the result each command's
\* closure returns.
CommandHandler(prefix, commands) == [prefix |-> prefix, commands |-> commands]

CommandHandlers ==
    {CommandHandler(p, c) :
        p \in {Bang, BangBang},
        c \in {<<>>, Insert(<<>>, Str_test, "Ok"), Insert(<<>>, Str_test, "Err")}}

\* <CommandHandler as MessageHandler>::on_message_create: the command named
\* by the first part after the prefix is run and its Err propagated with `?`;
\* a bot message, another prefix, no part or an unknown command give Ok.
CommandHandler_on_message_create(handler, message) ==
    IF message.bot THEN "Ok"
    ELSE IF ~starts_with(message.content, handler.prefix) THEN "Ok"
    ELSE LET command_part ==
                 SubSeq(message.content, Len(handler.prefix) + 1, Len(message.content))
             parts == split_whitespace(command_part)
         IN IF parts = <<>> THEN "Ok"
            ELSE IF parts[1] \in DOMAIN handler.commands
                 THEN handler.commands[parts[1]]
                 ELSE "Ok"

\* PrefixListenerRegistry::register_prefix_handler: insert under the write lock.
register_prefix_handler(prefix, handler) ==
    /\ prefix_handlers' = Insert(prefix_handlers, prefix, handler)
    /\ UNCHANGED <<total_shards, spawned, default_handlers, listenerLockVars, listener,
                   reply, mainTask, intents, presence, startTask, shardVars, now,
                   delivered, handlers, readers, call>>

\* PrefixListenerRegistry::add_default_handler: push under the write lock.
add_default_handler ==
    /\ Len(default_handlers) < MaxHandlers
    /\ default_handlers' = Append(default_handlers, Len(default_handlers) + 1)
    /\ UNCHANGED <<total_shards, spawned, prefix_handlers, listenerLockVars, listener,
                   reply, mainTask, intents, presence, startTask, shardVars, now,
                   delivered, handlers, readers, call>>

\* The handled flag after the loop over the prefixes: set only when the
\* handler of the matched prefix returned Ok.
Handled(matched, res) == matched /\ res = "Ok"

\* handle_message_create first runs PrefixListenerRegistry::process_message
\* on the message; its result is Ok.  The loop over the HashMap stops at the
\* first prefix the content starts with, whichever the map yields first;
\* the default handlers all run unless handled (an Err of one is logged).
process_message(d, msg) ==
    /\ call[d].pc = "prefix"
    /\ LET message == msg[1]
           matching == IF message.bot THEN {}
                       ELSE {p \in DOMAIN prefix_handlers :
                                starts_with(message.content, p)}
       IN \E first \in (IF matching = {} THEN {None} ELSE {Some(p) : p \in matching}) :
            LET res == IF first = None THEN "none"
                       ELSE CommandHandler_on_message_create(
                                prefix_handlers[Unwrap(first)], message)
                handled == Handled(first # None, res)
            IN call' = [call EXCEPT
                   ![d].pc = "read",
                   ![d].message = msg,
                   ![d].prefix_calls =
                       IF first = None THEN <<>>
                       ELSE <<[prefix |-> Unwrap(first), res |-> res]>>,
                   ![d].default_calls =
                       IF handled \/ message.bot THEN <<>>
                       ELSE default_handlers]
    /\ UNCHANGED <<total_shards, spawned, registryVars, listenerLockVars, listener, reply, mainTask, intents, presence, startTask, shardVars, now,
                   delivered, handlers, readers>>

\* self.handlers.read().await, and the count the method logs.
read_handlers(d) ==
    /\ call[d].pc = "read"
    /\ readers' = readers \cup {d}
    /\ call' = [call EXCEPT ![d].pc = "iter", ![d].n = Len(handlers), ![d].k = 1]
    /\ UNCHANGED <<total_shards, spawned, registryVars, listenerLockVars, listener, reply, mainTask, intents, presence, startTask, shardVars, now,
                   delivered, handlers>>

\* One turn of the loop over handlers: the callback returns res.
invoke_handler(d, res) ==
    /\ call[d].pc = "iter"
    /\ call[d].k <= Len(handlers)
    /\ LET h == handlers[IterIndex(call[d].k, Len(handlers))]
           rec == [h |-> h, cb |-> CallbackOf(call[d].method), res |-> res]
       IN IF AfterHandler(res) = "next"
          THEN /\ call' = [call EXCEPT ![d].calls = Append(@, rec), ![d].k = @ + 1]
               /\ UNCHANGED readers
          ELSE /\ call' = [call EXCEPT ![d].calls = Append(@, rec),
                                       ![d].pc = "returned", ![d].result = "Err"]
               /\ readers' = readers \ {d}
    /\ UNCHANGED <<total_shards, spawned, registryVars, listenerLockVars, listener, reply, mainTask, intents, presence, startTask, shardVars, now,
                   delivered, handlers>>

\* A handler callback running in task d calls add_handler on the registry
\* (it is handed the Client, whose event dispatcher gives out the registry)
\* and awaits the write guard of handlers.  The callback is one that
\* process_message invokes, or the next one of the loop over handlers.
callback_add_handler_await(d) ==
    /\ \/ call[d].pc = "prefix" /\ default_handlers # <<>>
       \/ call[d].pc = "iter" /\ call[d].k <= Len(handlers)
    /\ Len(handlers) < MaxHandlers
    /\ call' = [call EXCEPT ![d].pc = IF call[d].pc = "prefix"
                                      THEN "prefix_add" ELSE "iter_add"]
    /\ UNCHANGED <<total_shards, spawned, registryVars, listenerLockVars, listener,
                   reply, mainTask, intents, presence, startTask, shardVars, now,
                   delivered, handlers, readers>>

\* The add_handler called from the callback gets the write guard, pushes and
\* returns; the callback goes on.
callback_add_handler(d) ==
    /\ call[d].pc \in {"prefix_add", "iter_add"}
    /\ WriteLockFree
    /\ handlers' = Append(handlers, Len(handlers) + 1)
    /\ call' = [call EXCEPT ![d].pc = IF call[d].pc = "prefix_add"
                                      THEN "prefix" ELSE "iter"]
    /\ UNCHANGED <<total_shards, spawned, registryVars, listenerLockVars, listener,
                   reply, mainTask, intents, presence, startTask, shardVars, now,
                   delivered, readers>>

\* The loop is over: the guard is dropped, the method and dispatch_event
\* return Ok(()).
handle_message_return(d) ==
    /\ call[d].pc = "iter"
    /\ call[d].k > Len(handlers)
    /\ readers' = readers \ {d}
    /\ call' = [call EXCEPT ![d].pc = "returned", ![d].result = "Ok"]
    /\ UNCHANGED <<total_shards, spawned, registryVars, listenerLockVars, listener, reply, mainTask, intents, presence, startTask, shardVars, now,
                   delivered, handlers>>

----------------------------------------------------------------------------

\* One shard, every kind of inbound message, the clock at rest.
Next ==
    \/ \E int \in {None, Some(513)} : start_shards(int, None)
    \/ \E i \in Shards, ok \in BOOLEAN : connect(i, ok)
    \/ \E i \in Shards : send_identify(i)
    \/ \E i \in Shards : handle_heartbeat(i)
    \/ \E i \in Shards : handle_event(i)
    \/ \E i \in Shards : send_message(i)
    \/ \E i \in Shards : sleep(i)
    \/ \E i \in Shards, m \in Frames : GatewaySends(i, m)
    \/ \E i \in Shards, how \in {"closed", "reset"} : GatewayCloses(i, how)
    \/ add_handler

Spec == Init /\ [][Next]_vars

\* The shards of one ShardManager side by side.
InitManager == InitShards(TotalShards)

NextManager ==
    \/ \E int \in {None, Some(513)}, pres \in {None, Some(CustomPresence)} :
          start_shards(int, pres)
    \/ \E i \in Shards, ok \in BOOLEAN : connect(i, ok)
    \/ \E i \in Shards : send_identify(i)
    \/ \E i \in Shards : handle_heartbeat(i)
    \/ \E i \in Shards : handle_event(i)
    \/ \E i \in Shards : send_message(i)
    \/ \E i \in Shards : sleep(i)
    \/ \E i \in Shards, m \in ManagerFrames : GatewaySends(i, m)
    \/ wait_for_shutdown
    \/ \E i \in Shards, how \in {"closed", "reset"} : GatewayCloses(i, how)

SpecManager == InitManager /\ [][NextManager]_vars

\* One shard with the clock running.
NextLiveness ==
    \/ start_shards(Some(513), None)
    \/ \E i \in Shards : connect(i, TRUE)
    \/ \E i \in Shards : send_identify(i)
    \/ \E i \in Shards : handle_heartbeat(i)
    \/ \E i \in Shards : handle_event(i)
    \/ \E i \in Shards : send_message(i)
    \/ \E i \in Shards : sleep(i)
    \/ \E i \in Shards, m \in LivenessFrames : GatewaySends(i, m)
    \/ Tick

SpecLiveness == Init /\ [][NextLiveness]_vars

\* One shard from the login on.
NextLogin ==
    \/ \E response \in LoginResponses : login(response)
    \/ Next

SpecLogin == InitLogin /\ [][NextLogin]_vars

\* One shard receiving MESSAGE_CREATE frames, next to the dispatcher.
NextPayload ==
    \/ start_shards(Some(513), None)
    \/ \E i \in Shards : connect(i, TRUE)
    \/ \E i \in Shards : send_identify(i)
    \/ \E i \in Shards : handle_heartbeat(i)
    \/ \E i \in Shards : handle_event(i)
    \/ \E i \in Shards : send_message(i)
    \/ \E i \in Shards : sleep(i)
    \/ \E i \in Shards, m \in PayloadFrames : GatewaySends(i, m)
    \/ \E d \in Tasks, e \in DispatchEvents : dispatch_event(d, e)
    \/ \E d \in Tasks : process_message(d, PlainMessage)
    \/ \E d \in Tasks : read_handlers(d)
    \/ \E d \in Tasks, res \in {"Ok", "Err"} : invoke_handler(d, res)
    \/ \E d \in Tasks : handle_message_return(d)
    \/ add_handler

SpecPayload == Init /\ [][NextPayload]_vars

\* A prefix listener: registrations and messages in any order.
NextPrefix ==
    \/ \E name \in CommandNames, command \in PrefixCommands :
          register_command(name, command)
    \/ \E name \in CommandNames : unregister_command(name)
    \/ \E content \in Contents : handle_message(content)

SpecPrefix == InitPrefix /\ [][NextPrefix]_vars

\* Two tasks handling messages with a shared listener while a third
\* registers and unregisters commands.
InitListenerLock ==
    /\ InitShardState(1, "logged_in")
    /\ listener = ListenerWithHelp
    /\ reply = NoReply

NextListenerLock ==
    \/ \E t \in {"handler1", "handler2"}, content \in LockContents :
          handle_message_await(t, content)
    \/ \E t \in {"handler1", "handler2"} : handle_message_execute(t)
    \/ \E t \in {"handler1", "handler2"} : HelpCommand_execute(t)
    \/ \E name \in {Str_ping, Str_help}, command \in {"PingCommand", "HelpCommand"} :
          register_command_await("registrar", name, command)
    \/ \E name \in {Str_ping, Str_help} : unregister_command_await("registrar", name)
    \/ commands_write("registrar")

\* The runtime polls every task whose guard can be given: no task that can
\* go on waits for ever.
SpecListenerLock ==
    /\ InitListenerLock
    /\ [][NextListenerLock]_vars
    /\ \A t \in {"handler1", "handler2"} :
          WF_vars(handle_message_execute(t)) /\ WF_vars(HelpCommand_execute(t))
    /\ WF_vars(commands_write("registrar"))

\* One ShardManager whose start_shards is called several times.
NextStarts ==
    \/ start_shards(Some(513), None)
    \/ start_shards_queued(None, None)
    \/ start
    \/ \E i \in Shards, ok \in BOOLEAN : connect(i, ok)
    \/ \E i \in Shards : send_identify(i)
    \/ \E i \in Shards : handle_heartbeat(i)
    \/ \E i \in Shards : handle_event(i)
    \/ \E i \in Shards : sleep(i)
    \/ \E i \in Shards : GatewaySends(i, HeartbeatAckFrame)
    \/ \E i \in Shards : GatewayCloses(i, "closed")

SpecStarts == InitManager /\ [][NextStarts]_vars

\* The dispatcher and its registry, called from one task per shard.
NextDispatch ==
    \/ \E d \in Tasks, e \in DispatchEvents : dispatch_event(d, e)
    \/ \E d \in Tasks : process_message(d, PlainMessage)
    \/ \E d \in Tasks : read_handlers(d)
    \/ \E d \in Tasks, res \in {"Ok", "Err"} : invoke_handler(d, res)
    \/ \E d \in Tasks : handle_message_return(d)
    \/ add_handler

SpecDispatch == InitManager /\ [][NextDispatch]_vars

\* The dispatcher of one shard with the prefix registry in use.
NextRegistry ==
    \/ \E d \in Tasks : dispatch_event(d, Event("MESSAGE_CREATE", "msg"))
    \/ \E d \in Tasks, msg \in RegistryMessages : process_message(d, msg)
    \/ \E d \in Tasks : read_handlers(d)
    \/ \E d \in Tasks, res \in {"Ok", "Err"} : invoke_handler(d, res)
    \/ \E d \in Tasks : handle_message_return(d)
    \/ add_handler
    \/ \E prefix \in {Bang, BangBang}, handler \in CommandHandlers :
          register_prefix_handler(prefix, handler)
    \/ add_default_handler

SpecRegistry == Init /\ [][NextRegistry]_vars

\* The dispatchers of the shards with handlers that register handlers.
\* Every call is polled until it returns, and a waiting add_handler gets the
\* write guard if the guard is free again and again (the lock is fair).
NextReentrant ==
    \/ \E d \in Tasks : dispatch_event(d, Event("MESSAGE_CREATE", "msg"))
    \/ \E d \in Tasks : process_message(d, PlainMessage)
    \/ \E d \in Tasks : read_handlers(d)
    \/ \E d \in Tasks, res \in {"Ok", "Err"} : invoke_handler(d, res)
    \/ \E d \in Tasks : handle_message_return(d)
    \/ \E d \in Tasks : callback_add_handler_await(d)
    \/ \E d \in Tasks : callback_add_handler(d)
    \/ add_handler
    \/ add_default_handler

SpecReentrant ==
    /\ InitManager
    /\ [][NextReentrant]_vars
    /\ \A d \in 0 .. (TotalShards - 1) :
          /\ WF_vars(process_message(d, PlainMessage))
          /\ WF_vars(read_handlers(d))
          /\ WF_vars(\E res \in {"Ok", "Err"} : invoke_handler(d, res))
          /\ WF_vars(handle_message_return(d))
          /\ SF_vars(callback_add_handler(d))

----------------------------------------------------------------------------
(* Properties *)

\* The runner of shard j is at its receive, with a message waiting on an
\* open connection.
FramePending(j) == pc[j] = "event" /\ conn[j] = "open" /\ inbound[j] # <<>>

\* C1: a fault of one shard (its connection closed or reset) does not affect
\* the others: a shard that has a message waiting on its open connection is
\* still run, so it receives and processes that message.
C1_ShardIndependence ==
    \A i, j \in Shards :
        (i # j /\ pc[i] = "panicked" /\ FramePending(j)) => startTask = "running"

\* C2: when the receive of a shard fails because its connection is closed or
\* reset, the runner goes back to Connecting (and from there opens a new
\* connection and identifies again).
C2_RestartOnFault ==
    [][\A i \in Shards :
          (pc[i] = "event" /\ StreamFails(i) /\ pc'[i] # pc[i]) => pc'[i] = "connect"]_vars

\* The runner of shard i waits in recv and nothing lets it go on.
BlockedInReceive(i) ==
    /\ startTask = "running"
    /\ pc[i] = "event"
    /\ inbound[i] = <<>>
    /\ ~StreamFails(i)

\* C3: the receive step never keeps an Active runner from its liveness
\* check: a runner waiting for a message that does not arrive is not held
\* there once more than the send threshold has passed since its last heartbeat.
C3_ReceiveDoesNotSuppressPing ==
    \A i \in Shards :
        (BlockedInReceive(i) /\ last_heartbeat[i] # None)
            => elapsed(last_heartbeat[i]) <= SendThresholdSecs

\* C4: in every tick the heartbeat check is the first step, and the receive
\* is attempted only after the heartbeat check of the same tick has run.
C4_HeartbeatBeforeReceive ==
    \A i \in Shards :
        /\ tickLog[i] # <<>> => tickLog[i][1] = "heartbeat"
        /\ (pc[i] = "event" /\ startTask = "running") => tickLog[i] = <<"heartbeat">>

C4_Witness ==
    \E i \in Shards : tickLog[i] = <<"heartbeat", "recv_ok">> /\ dispatched[i] # <<>>

\* The handlers a finished call has invoked, in order.
InvokedHandlers(d) == [j \in 1 .. Len(call[d].calls) |-> call[d].calls[j].h]

\* A call that went through a registry method and has returned.
ReturnedFromRegistry(d) == call[d].pc = "returned" /\ call[d].method # "none"

\* C5: an Err returned by a handler is caught: the dispatch still invokes
\* every handler registered after the failing one (all n handlers of the
\* registry get their call) and returns Ok to its caller.
C5_HandlerErrorIsolated ==
    \A d \in Tasks :
        /\ call[d].pc = "returned" => call[d].result = "Ok"
        /\ ReturnedFromRegistry(d) => Len(call[d].calls) = call[d].n
        /\ call[d].pc = "iter" => Len(call[d].calls) = call[d].k - 1

C5_Witness ==
    \E d \in Tasks :
        /\ ReturnedFromRegistry(d)
        /\ Len(call[d].calls) = 2
        /\ call[d].calls[1].res = "Err"
        /\ call[d].calls[2].res = "Ok"
        /\ call[d].result = "Ok"

\* C6: for each event handed to the registry, every handler registered with
\* add_handler is invoked exactly once, in registration order, and only the
\* callback of the event's kind is called.
C6_EachHandlerOnceInOrder ==
    \A d \in Tasks :
        ReturnedFromRegistry(d) =>
            /\ InvokedHandlers(d) = SubSeq(handlers, 1, call[d].n)
            /\ \A j \in 1 .. Len(call[d].calls) :
                  call[d].calls[j].cb =
                      (CASE call[d].method = "handle_message_create" -> "on_message_create"
                         [] call[d].method = "handle_message_update" -> "on_message_update"
                         [] call[d].method = "handle_message_delete" -> "on_message_delete")

C6_Witness ==
    \E d \in Tasks :
        /\ ReturnedFromRegistry(d)
        /\ call[d].method = "handle_message_delete"
        /\ InvokedHandlers(d) = <<1, 2>>

\* In this step shard i takes a well-formed MESSAGE_CREATE frame.
TakesMessageCreate(i) ==
    /\ pc[i] = "event"
    /\ inbound[i] # <<>>
    /\ Head(inbound[i]) = MessageCreateFrame
    /\ pc'[i] # pc[i]

\* C7: a well-formed MESSAGE_CREATE frame received on a shard is forwarded to
\* the event dispatcher, which invokes every handler registered in the
\* client's registry.
C7_ForwardedToDispatcher ==
    [][\A i \in Shards :
          TakesMessageCreate(i) =>
              \A k \in 1 .. Len(handlers) :
                  \E j \in 1 .. Len(call'[i].calls) : call'[i].calls[j].h = handlers[k]]_vars

\* In this step shard i completes the handling of a frame that recv decoded.
HandlesDecodedFrame(i) ==
    /\ pc[i] = "event"
    /\ inbound[i] # <<>>
    /\ recv(Head(inbound[i])).res = "Ok"
    /\ pc'[i] # pc[i]

\* C8: a HeartbeatAck frame sets the last-ack time to the current time and
\* dispatches nothing; a frame with any other op code leaves the last-ack
\* time alone and is passed on to dispatch.
C8_AckOrDispatch ==
    [][\A i \in Shards :
          HandlesDecodedFrame(i) =>
              LET ev == recv(Head(inbound[i])).event IN
              IF ev.op = "HeartbeatAck"
              THEN /\ last_heartbeat_ack'[i] = Some(now)
                   /\ dispatched'[i] = dispatched[i]
              ELSE /\ last_heartbeat_ack'[i] = last_heartbeat_ack[i]
                   /\ Len(dispatched'[i]) = Len(dispatched[i]) + 1
                   /\ dispatched'[i][Len(dispatched'[i])].op = ev.op
                   /\ dispatched'[i][Len(dispatched'[i])].t = ev.t]_vars

C8_Witness ==
    \E i \in Shards :
        /\ last_heartbeat_ack[i] # None
        /\ Unwrap(last_heartbeat_ack[i]) > 0
        /\ Len(dispatched[i]) = 1
        /\ tickLog[i] = <<"heartbeat", "recv_ok">>

\* The runner of shard i is about to ask whether a heartbeat is due.
AtHeartbeatCheck(i) == startTask = "running" /\ pc[i] = "heartbeat"

C10_DueOnStaleAck ==
    \A i \in Shards :
        (/\ AtHeartbeatCheck(i)
         /\ heartbeat_interval[i] # None
         /\ last_heartbeat_ack[i] # None
         /\ elapsed(last_heartbeat_ack[i]) > AckThresholdSecs)
            => is_required_heartbeat(i)

\* An outbound frame with the Identify op code.
IsIdentify(f) == f.op = 2

\* The runner of shard i has not finished its send_identify yet.
BeforeIdentify(i) == pc[i] \in {"unspawned", "connect", "identify"}

\* C11: on its connection a runner writes exactly one Identify frame and it
\* is the first frame written; until send_identify has run no heartbeat has
\* been sent, nothing else has been written and no message has been taken
\* from the stream.
C11_IdentifyFirst ==
    \A i \in Shards :
        /\ BeforeIdentify(i) =>
              /\ outbound[i] = <<>>
              /\ taken[i] = <<>>
              /\ last_heartbeat[i] = None
        /\ outbound[i] # <<>> =>
              /\ IsIdentify(outbound[i][1])
              /\ \A k \in 2 .. Len(outbound[i]) : ~IsIdentify(outbound[i][k])
        /\ (~BeforeIdentify(i) /\ conn[i] = "open") => outbound[i] # <<>>

C11_Witness ==
    \E i \in Shards :
        /\ Len(outbound[i]) = 2
        /\ IsIdentify(outbound[i][1])
        /\ outbound[i][2] = HeartbeatFrame
        /\ taken[i] # <<>>

\* C12: once started, ShardManager::start has one runner for each shard id
\* 0 .. total_shards-1, no more and no fewer, and an Identify frame written
\* by runner i carries shard = [i, total_shards].
C12_OneRunnerPerShardId ==
    /\ DOMAIN pc = 0 .. (total_shards - 1)
    /\ startTask = "idle" => \A i \in DOMAIN pc : pc[i] = "unspawned"
    /\ startTask # "idle" => \A i \in 0 .. (total_shards - 1) : pc[i] # "unspawned"
    /\ \A i \in DOMAIN outbound :
          \A k \in 1 .. Len(outbound[i]) :
              IsIdentify(outbound[i][k]) => outbound[i][k].d.shard = <<<<i, total_shards>>>>

C12_Witness ==
    /\ total_shards = 2
    /\ \A i \in 0 .. 1 :
          /\ outbound[i] # <<>>
          /\ IsIdentify(outbound[i][1])
          /\ outbound[i][1].d.shard = <<<<i, 2>>>>

\* C13: a registration never changes the handlers under a running
\* iteration: while a dispatch holds the read guard the registry is the one
\* it found, a returned dispatch has invoked exactly the handlers that were
\* registered when its iteration began (the first n, in order, each once),
\* and an iteration sees every handler whose add_handler has returned.
C13_RegistrationDoesNotCorruptIteration ==
    \A d \in Tasks :
        /\ d \in readers => call[d].pc = "iter" /\ call[d].n = Len(handlers)
        /\ call[d].pc = "iter" =>
              /\ d \in readers
              /\ InvokedHandlers(d) = [j \in 1 .. (call[d].k - 1) |-> j]
        /\ ReturnedFromRegistry(d) =>
              InvokedHandlers(d) = [j \in 1 .. call[d].n |-> j]

\* One dispatch ran with one handler, a second handler was registered, and
\* another dispatch is now in an iteration over both.
C13_Witness ==
    \E d1, d2 \in Tasks :
        /\ ReturnedFromRegistry(d1)
        /\ InvokedHandlers(d1) = <<1>>
        /\ call[d2].pc = "iter"
        /\ call[d2].n = 2
        /\ call[d2].k = 2

\* A message that recv decodes and whose op code is not HeartbeatAck.
DecodedForDispatch(m) == recv(m).res = "Ok" /\ recv(m).event.op # "HeartbeatAck"

\* A message that recv decodes as a HeartbeatAck.
DecodedAck(m) == recv(m).res = "Ok" /\ recv(m).event.op = "HeartbeatAck"

TakesMessage(i, m) ==
    /\ pc[i] = "event"
    /\ inbound[i] # <<>>
    /\ Head(inbound[i]) = m
    /\ taken'[i] # taken[i]

\* The runner of shard i goes on to the rest of its tick.
RunnerGoesOn(i) == startTask' = "running" /\ pc'[i] = "sleep"

\* C15: an empty text message, and a message that is not text, make recv
\* return an error; the runner is not stopped by it: it keeps its
\* connection, its heartbeat and ack times stay as they were, nothing is
\* dispatched, and it goes on to the sleep that ends the tick.
C15_EmptyFrameSkipped ==
    [][\A i \in Shards : \A m \in {EmptyText, BinaryMessage} :
          TakesMessage(i, m) =>
              /\ RunnerGoesOn(i)
              /\ tickLog'[i] = Append(tickLog[i], "recv_err")
              /\ conn'[i] = conn[i]
              /\ connCount'[i] = connCount[i]
              /\ last_heartbeat'[i] = last_heartbeat[i]
              /\ last_heartbeat_ack'[i] = last_heartbeat_ack[i]
              /\ heartbeat_interval'[i] = heartbeat_interval[i]
              /\ dispatched'[i] = dispatched[i]]_vars

\* A non-text message was skipped and the next tick handled a READY frame.
C15_Witness ==
    \E i \in Shards :
        /\ taken[i] = <<BinaryMessage, ReadyFrame>>
        /\ Len(dispatched[i]) = 1
        /\ startTask = "running"
        /\ pc[i] = "sleep"

\* C16: a message whose text is not JSON, whose op is missing, or whose op
\* is none of the known codes, is skipped: the runner is not ended by it and
\* goes on to the rest of its tick.
C16_BadFrameSkipped ==
    [][\A i \in Shards : \A m \in {GarbageText, NoOpFrame, BadOpFrame} :
          TakesMessage(i, m) => RunnerGoesOn(i)]_vars

\* C17: a frame whose event name is a string outside the known set decodes
\* without error to the event Unknown: the runner goes on, and the event is
\* dispatched as one that nothing handles.
C17_UnknownEventTolerated ==
    [][\A i \in Shards :
          TakesMessage(i, FutureEventFrame) =>
              /\ RunnerGoesOn(i)
              /\ dispatched'[i] =
                     Append(dispatched[i],
                            [t |-> "Unknown", op |-> "Dispatch", did |-> "ignored"])]_vars

\* In this step the runner of shard i sends a frame (its Identify, or a
\* heartbeat that is due) and the send fails.
SendFails(i) ==
    /\ startTask = "running"
    /\ conn[i] # "open"
    /\ \/ pc[i] = "identify"
       \/ pc[i] = "heartbeat" /\ is_required_heartbeat(i)
    /\ pc'[i] # pc[i]

\* C19: a failed send of the Identify frame or of a heartbeat ends the use
\* of that connection: the runner goes back to Connecting.
C19_SendFailureRestarts ==
    [][\A i \in Shards : SendFails(i) => pc'[i] = "connect"]_vars

\* C20: a login whose token is not accepted returns to its caller with an
\* error outcome (the main task is neither ended nor is the process), and
\* no shard task is ever started without a successful login.
C20_AuthErrorSurfaced ==
    [][/\ login("unauthorized") => mainTask' = "login_error"
       /\ startTask' # "idle" => mainTask' = "logged_in"]_vars

\* An event whose payload is not what its name requires: no message for
\* MESSAGE_CREATE and MESSAGE_UPDATE, no id and channel_id for MESSAGE_DELETE.
UndecodablePayload(e) ==
    \/ e.t \in {"MESSAGE_CREATE", "MESSAGE_UPDATE"} /\ e.d # "msg"
    \/ e.t = "MESSAGE_DELETE" /\ e.d \notin {"msg", "ids"}

\* The last message the runner of shard i has taken, in the tick it took it.
JustTook(i, m) ==
    /\ tickLog[i] = <<"heartbeat", "recv_ok">>
    /\ taken[i] # <<>>
    /\ taken[i][Len(taken[i])] = m

\* C18: an event with an undecodable payload is discarded: dispatch_event
\* returns Ok at once, having invoked no handler and taken no lock; and a
\* MESSAGE_CREATE frame with such a payload leaves the runner running, its
\* handling ending in the logged parse error.
C18_BadPayloadDiscarded ==
    /\ \A d \in Tasks :
          (call[d].pc # "idle" /\ UndecodablePayload(call[d].event)) =>
              /\ call[d].pc = "returned"
              /\ call[d].result = "Ok"
              /\ call[d].calls = <<>>
              /\ d \notin readers
    /\ \A i \in Shards :
          JustTook(i, BadMessageCreateFrame) =>
              /\ startTask = "running"
              /\ pc[i] = "sleep"
              /\ dispatched[i][Len(dispatched[i])].did = "parse_error"

C18_Witness ==
    /\ handlers # <<>>
    /\ \E d \in Tasks :
          /\ call[d].pc = "returned"
          /\ call[d].event = Event("MESSAGE_DELETE", "obj")
    /\ \E i \in Shards : JustTook(i, BadMessageCreateFrame)

\* C24: the Identify frame of every shard carries the intents that were
\* handed to start, unchanged, or 1 when none were handed in, and
\* large_threshold = 50.
C24_IdentifyIntents ==
    \A i \in Shards :
        \A k \in 1 .. Len(outbound[i]) :
            IsIdentify(outbound[i][k]) =>
                /\ outbound[i][k].d.intents = (IF intents = <<>> THEN 1 ELSE intents[1])
                /\ outbound[i][k].d.large_threshold = 50

C24_Witness ==
    /\ intents = <<513>>
    /\ \E i \in Shards :
          /\ outbound[i] # <<>>
          /\ IsIdentify(outbound[i][1])
          /\ outbound[i][1].d.intents = 513

\* C25: when no presence was handed to start, the presence field of each
\* shard's Identify frame is the default placeholder (online, not afk, one
\* activity), not null.
C25_DefaultPresence ==
    \A i \in Shards :
        \A k \in 1 .. Len(outbound[i]) :
            (IsIdentify(outbound[i][k]) /\ presence = None) =>
                outbound[i][k].d.presence = Some(DefaultPresence)

\* The runner of shard i is inside the handling of an event: handle_event
\* awaits dispatch, which has not returned yet.
InDispatch(i) == startTask = "running" /\ pc[i] = "dispatch"

\* C21: the handling of an event, however long it takes, does not keep the
\* shard's heartbeats from being sent: while it runs, no heartbeat is
\* overdue (the last one is never more than the send threshold old).
C21_SlowHandlerDoesNotStarveHeartbeat ==
    \A i \in Shards :
        (InDispatch(i) /\ last_heartbeat[i] # None)
            => elapsed(last_heartbeat[i]) <= SendThresholdSecs

\* C22: once wait_for_shutdown has reported the shards shut down and has
\* returned, no runner starts a new tick: a runner at the top of its loop
\* stays there.
C22_NoTickAfterShutdown ==
    [][\A i \in Shards :
          (mainTask = "shut_down" /\ pc[i] = "heartbeat") => pc'[i] = pc[i]]_vars

\* The positions in taken[i] of the decoded frames that carried a sequence
\* number.
WithSequence(i) ==
    {k \in 1 .. Len(taken[i]) :
        recv(taken[i][k]).res = "Ok" /\ recv(taken[i][k]).event.s # None}

\* The sequence number of the last frame received that carried one.
LastSequence(i) ==
    IF WithSequence(i) = {} THEN None
    ELSE LET last == CHOOSE k \in WithSequence(i) : \A j \in WithSequence(i) : j <= k
         IN recv(taken[i][last]).event.s

\* In this step the runner of shard i writes a heartbeat frame.
WritesHeartbeat(i) ==
    /\ Len(outbound'[i]) = Len(outbound[i]) + 1
    /\ outbound'[i][Len(outbound'[i])].op = 1

\* C23: every heartbeat frame written has op = 1 and carries in d the
\* sequence number of the last frame received that had one, or the filler
\* 251 if none has been received yet.
C23_HeartbeatCarriesSequence ==
    [][\A i \in Shards :
          WritesHeartbeat(i) =>
              outbound'[i][Len(outbound'[i])].d =
                  (IF LastSequence(i) = None THEN 251 ELSE LastSequence(i)[1])]_vars

\* C26: the text of the Identify frame a runner sends, given to the decoding
\* that recv does, decodes without error to an event with op = Identify and
\* a d that is not null.
C26_IdentifyRoundTrip ==
    \A i \in Shards :
        \A k \in 1 .. Len(outbound[i]) :
            IsIdentify(outbound[i][k]) =>
                LET r == recv(to_string(outbound[i][k])) IN
                /\ r.res = "Ok"
                /\ r.event.op = "Identify"
                /\ r.event.d # Null

\* C27: heartbeats are five seconds apart: a runner that has sent a
\* heartbeat on its connection writes the next one only when at least five
\* seconds have passed since, whether or not an ack has been received.
C27_HeartbeatEveryFiveSeconds ==
    [][\A i \in Shards :
          (WritesHeartbeat(i) /\ last_heartbeat[i] # None)
              => now - last_heartbeat[i][1] >= 5]_vars

----------------------------------------------------------------------------
(* Properties of the prefix listener *)

\* A handle_message call has just returned; reply' is its record.
MessageHandled == reply' # reply

\* The content begins with the listener's prefix.
HasPrefix(content) ==
    /\ Len(content) >= Len(listener.prefix)
    /\ \A k \in 1 .. Len(listener.prefix) : content[k] = listener.prefix[k]

\* What follows the prefix.
AfterPrefix(content) ==
    [k \in 1 .. (Len(content) - Len(listener.prefix)) |-> content[k + Len(listener.prefix)]]

\* Only whitespace, or nothing at all.
Blank(str) == \A k \in 1 .. Len(str) : str[k] = " "

\* The first whitespace-separated token of a string that is not blank.
FirstToken(str) ==
    LET from == CHOOSE k \in 1 .. Len(str) :
                    str[k] # " " /\ \A j \in 1 .. (k - 1) : str[j] = " "
        upto == CHOOSE e \in from .. Len(str) :
                    /\ \A j \in from .. e : str[j] # " "
                    /\ e = Len(str) \/ str[e + 1] = " "
    IN [k \in 1 .. (upto - from + 1) |-> str[from + k - 1]]

\* The pairs of a lower-case letter and its upper-case form.
CasePairs ==
    {<<"t", "T">>, <<"e", "E">>, <<"s", "S">>, <<"p", "P">>, <<"h", "H">>}

SameCharIgnoringCase(c, d) ==
    c = d \/ <<c, d>> \in CasePairs \/ <<d, c>> \in CasePairs

SameIgnoringCase(a, b) ==
    Len(a) = Len(b) /\ \A k \in 1 .. Len(a) : SameCharIgnoringCase(a[k], b[k])

\* C28: handle_message returns the response of the registered command when
\* the content starts with the prefix and the first token after the prefix
\* is the key of a registered command (and that command is the one executed);
\* it returns Ok(None) and executes nothing when the content does not start
\* with the prefix, when nothing follows the prefix, or when no registered
\* key is that token, in whatever case.
C28_PrefixDispatch ==
    [][MessageHandled =>
          LET content == reply'.content
              rest == AfterPrefix(content)
          IN IF ~HasPrefix(content) \/ Blank(rest)
             THEN reply'.result = Ok(None) /\ reply'.executed = None
             ELSE /\ FirstToken(rest) \in DOMAIN listener.commands =>
                       /\ reply'.executed = Some(listener.commands[FirstToken(rest)])
                       /\ reply'.result =
                              execute(listener.commands[FirstToken(rest)], reply'.args)
                  /\ (\A k \in DOMAIN listener.commands :
                          ~SameIgnoringCase(k, FirstToken(rest))) =>
                       reply'.result = Ok(None) /\ reply'.executed = None]_vars

C28_Witness ==
    /\ reply.handled
    /\ reply.content = Bang \o <<" ">> \o Str_ping \o <<" ", "a">>
    /\ reply.executed = Some("PingCommand")
    /\ reply.result = Ok(Some(Str_Pong))

\* C29: a listener made with new stores and finds command names without
\* regard to case: a registration is found under every spelling of its name,
\* and a message runs the command whose name is its first token in any
\* case.  A listener made with new_case_sensitive stores the name as given
\* and runs a command only for the exact spelling.
C29_CaseSensitivity ==
    [][/\ \A name \in CommandNames, command \in PrefixCommands :
             register_command(name, command) =>
                 IF listener.case_sensitive
                 THEN /\ name \in DOMAIN listener'.commands
                      /\ listener'.commands[name] = command
                 ELSE /\ \E k \in DOMAIN listener'.commands :
                            SameIgnoringCase(k, name) /\ listener'.commands[k] = command
                      /\ \A k1, k2 \in DOMAIN listener'.commands :
                            SameIgnoringCase(k1, k2) => k1 = k2
       /\ (MessageHandled /\ HasPrefix(reply'.content)
                          /\ ~Blank(AfterPrefix(reply'.content))) =>
             LET token == FirstToken(AfterPrefix(reply'.content))
                 found == IF listener.case_sensitive
                          THEN {k \in DOMAIN listener.commands : k = token}
                          ELSE {k \in DOMAIN listener.commands : SameIgnoringCase(k, token)}
             IN IF found = {}
                THEN reply'.executed = None
                ELSE \E k \in found : reply'.executed = Some(listener.commands[k])]_vars

C29_Witness ==
    /\ ~listener.case_sensitive
    /\ reply.handled
    /\ reply.content = Bang \o Str_TEST
    /\ reply.executed = Some("TestCommand")
    /\ reply.result = Ok(Some(Str_Hello))

\* C30: a registered command also runs under its aliases: a message whose
\* first token after the prefix is an alias of a registered command executes
\* that command and returns its response.
C30_AliasesRegistered ==
    [][(MessageHandled /\ HasPrefix(reply'.content)
                       /\ ~Blank(AfterPrefix(reply'.content))) =>
          \A k \in DOMAIN listener.commands :
              \A j \in 1 .. Len(aliases(listener.commands[k])) :
                  FirstToken(AfterPrefix(reply'.content)) = aliases(listener.commands[k])[j]
                      => /\ reply'.executed = Some(listener.commands[k])
                         /\ reply'.result = execute(listener.commands[k], reply'.args)]_vars

----------------------------------------------------------------------------
(* Properties of the liveness decision and of the frames without effect *)

\* An ack has been received, a heartbeat has been sent, and fewer than 5
\* whole seconds have passed since that heartbeat.
RecentlySent(i) ==
    /\ last_heartbeat_ack[i] # None
    /\ last_heartbeat[i] # None
    /\ now - Unwrap(last_heartbeat[i]) < 5

ManagerExists(i) == pc[i] \notin {"unspawned", "connect"}

\* The runner of shard i takes a Hello frame from its connection.
TakesHello(i) ==
    /\ pc[i] = "event"
    /\ inbound[i] # <<>>
    /\ Head(inbound[i]) = HelloFrame
    /\ inbound'[i] = Tail(inbound[i])

TakesReconnectOrInvalidSession(i) ==
    /\ pc[i] = "event"
    /\ inbound[i] # <<>>
    /\ Head(inbound[i]) \in {ReconnectFrame, InvalidSessionFrame}
    /\ inbound'[i] = Tail(inbound[i])

----------------------------------------------------------------------------
(* Properties of the prefix registry *)

\* p is an initial segment of the content c.
IsPrefixOf(p, c) ==
    Len(p) <= Len(c) /\ \A k \in 1 .. Len(p) : c[k] = p[k]

\* Task d has just run process_message.
ProcessedMessage(d) == call[d].pc = "prefix" /\ call'[d].pc = "read"

\* C34: when some registered prefix matches the content of the message,
\* process_message invokes no default handler for it, and it invokes at most
\* one prefix handler.
C34_DefaultsOnlyWithoutPrefixMatch ==
    [][\A d \in DOMAIN call :
          (/\ ProcessedMessage(d)
           /\ \E p \in DOMAIN prefix_handlers :
                  IsPrefixOf(p, call'[d].message[1].content))
              => /\ call'[d].default_calls = <<>>
                 /\ Len(call'[d].prefix_calls) <= 1]_vars

----------------------------------------------------------------------------
(* Properties of the listener's lock *)

\* C35: a handle_message call that has begun returns, whatever the other
\* tasks do with the listener in the meantime, also when the command it
\* executes is HelpCommand, which reads the listener itself.
C35_HandleMessageCompletes ==
    \A t \in {"handler1", "handler2"} :
        (listenerTask[t].pc # "idle") ~> (listenerTask[t].pc = "idle")

----------------------------------------------------------------------------
(* Properties of the registry locks *)

\* C36: a dispatch over the handler registry that has begun returns, under
\* every interleaving of the dispatches of the shards with registrations,
\* also when a handler callback itself calls add_handler.
C36_DispatchTerminates ==
    \A d \in 0 .. (TotalShards - 1) :
        (call[d].pc \notin {"idle", "returned"}) ~> (call[d].pc = "returned")

----------------------------------------------------------------------------
(* Properties of the manager's mutex *)

\* The tasks spawned by start_shards that are inside ShardManager::start.
ActiveStarts ==
    (IF startTask = "running" THEN 1 ELSE 0)
        + Cardinality({k \in 1 .. Len(spawned) : spawned[k].state = "running"})

\* Each start polls one runner per shard id for as long as it lasts.
ActiveRunners == ActiveStarts * total_shards

\* C37: however many times start_shards is called on one ShardManager, at
\* most total_shards shard runners are active at once, and while a start has
\* its runners, every later start is still waiting for the mutex.
C37_AtMostTotalShardsRunners ==
    /\ ActiveRunners <= total_shards
    /\ startTask = "running" =>
          \A k \in 1 .. Len(spawned) : spawned[k].state \in {"waiting", "panicked"}

C37_Witness ==
    /\ startTask = "running"
    /\ Len(spawned) = 2
    /\ spawned[1].state = "panicked"
    /\ spawned[2].state = "waiting"
    /\ \A i \in Shards : pc[i] \in {"heartbeat", "event", "sleep"}
    /\ ActiveRunners = total_shards

----------------------------------------------------------------------------
(* Properties of the listener's command list *)

\* The lower-case form of a name, letter by letter.
Lowered(name) ==
    [k \in 1 .. Len(name) |->
        IF \E pair \in CasePairs : pair[2] = name[k]
        THEN (CHOOSE pair \in CasePairs : pair[2] = name[k])[1]
        ELSE name[k]]

\* The name a listener files a command under.
Normalised(name) == IF listener.case_sensitive THEN name ELSE Lowered(name)

\* C38: list_commands is empty on a new listener; register_command adds the
\* normalised name to it, or, if it is there already, replaces the command
\* filed under it and adds nothing; unregister_command takes the normalised
\* name out and changes nothing if it is not there; no other entry changes.
\* So list_commands is always exactly the normalised names registered and
\* not unregistered since.
C38_ListIsRegisteredNames ==
    /\ list_commands(listener) = {}
    /\ [][/\ \A name \in CommandNames, command \in PrefixCommands :
               register_command(name, command) =>
                   /\ list_commands(listener') =
                          list_commands(listener) \cup {Normalised(name)}
                   /\ listener'.commands[Normalised(name)] = command
                   /\ \A k \in list_commands(listener) \ {Normalised(name)} :
                          listener'.commands[k] = listener.commands[k]
          /\ \A name \in CommandNames :
               unregister_command(name) =>
                   /\ list_commands(listener') =
                          list_commands(listener) \ {Normalised(name)}
                   /\ Normalised(name) \notin list_commands(listener)
                          => listener' = listener
                   /\ \A k \in list_commands(listener') :
                          listener'.commands[k] = listener.commands[k]]_vars

C38_Witness ==
    /\ ~listener.case_sensitive
    /\ list_commands(listener) = {Str_test, Str_ping}
    /\ listener.commands[Str_test] = "EchoPrefixCommand"
    /\ listener.commands[Str_ping] = "PingCommand"

====
